---- MODULE Spec2Model ----
(***************************************************************************)
(* A model of HF-Enigma/goproxy: the httpproxy listener (Accept / Add /    *)
(* Close over one buffered channel), the DNS-caching dialer of             *)
(* httpproxy/transport/direct, the RoundTrip of the direct filter with its *)
(* CONNECT handling, the backend selection of the vps and php filters, and *)
(* the autoproxy filter with its blocklist updater.  Each component has    *)
(* its own specification; a component that a specification does not        *)
(* exercise stays in its idle state.                                       *)
(***************************************************************************)
EXTENDS Integers, Sequences, FiniteSets, TLC

(***************************************************************************)
(* Bounds of the model.                                                    *)
(***************************************************************************)
\* capacity of the channel l.lane; the source sets 1024 (part_000:15), the
\* model scales it down so that a full queue is reachable
backlog == 1
\* results (connections and temporary errors) the underlying listener hands
\* to the acceptance worker before it stays silent or fails for good
MaxResults == 2
\* Add calls made in all, by whichever caller
MaxAdds == 2

\* Dial calls made on the dialer
MaxDials == 2
\* largest retry count a Dialer is configured with
MaxRetryTimes == 3
\* hours that pass between Dial calls
MaxTicks == 1

\* chunks each endpoint of a tunnel sends
MaxChunks == 1

\* largest number of fetch servers a vps or php filter is configured with
MaxBackends == 3

\* times the 10-minute ticker of an updater fires
MaxTimerTicks == 2
\* latest time the clock of the autoproxy filter reaches
MaxClock == 2
\* GFWList.Duration, the configured refresh interval, in clock units
Duration == 1

VARIABLES
    \* ---- autoproxy filter (src/unnamed/part_001) ----
    onceUpdater,    \* the package-level sync.Once: 0, or the instance whose
                    \* goroutine is inside Do
    store,          \* the persisted blocklist object and its metadata
    af,             \* the Filter instances constructed by NewFilter
    upd,            \* the frame of each instance's updater goroutine
    ticker,         \* the channel of time.Tick of each updater: a tick waits
    pr,             \* the frames of the RoundTrip calls of the autoproxy filter
    aclock,         \* time.Now()
    ticks,          \* times a ticker has fired
    \* ---- vps and php filters (vps.go, src/unnamed/part_001) ----
    req,            \* the request: Sites.Match(req.Host), URL.Host, URL.Path
    nsrv,           \* len(f.FetchServers)
    vps,            \* the frame of the vps filter's RoundTrip
    php,            \* the frame of the php filter's RoundTrip
    \* ---- direct filter (src/unnamed/part_001) ----
    cf,             \* the frame of the RoundTrip call and its context
    tun,            \* the two connections of the tunnel and the spawned pump
    cev,            \* what the filter has done to the client, in order
    \* ---- dialer (src/httpproxy/transport/direct/dialer.go) ----
    dialer,         \* the Dialer value the caller holds
    dl,             \* the frame of the Dial call in progress
    now,            \* the clock, in milliseconds
    dcount,         \* Dial calls begun and hours ticked
    \* ---- listener (src/unnamed/part_000) ----
    lane,           \* buffered channel of racer values, oldest first
    laneClosed,     \* close(l.lane) has happened
    stopped,        \* l.stopped
    mu,             \* l.mu: "free" or the goroutine holding it
    once,           \* l.once has run
    lnOpen,         \* the underlying listener l.ln is open
    worker,         \* the acceptance goroutine: pc, the racer in hand, tempDelay
    accPc,          \* position of each Accept caller
    addPc,          \* position of each Add caller
    closePc,        \* position of each Close caller
    panicked,       \* "none", or the goroutine whose panic ended the process
    env,            \* what the underlying listener has produced so far
    hist            \* observations: what was returned, counted, closed

lvars == <<lane, laneClosed, stopped, mu, once, lnOpen, worker, accPc, addPc,
           closePc, panicked, env, hist>>

dvars == <<dialer, dl, now, dcount>>

cvars == <<cf, tun, cev>>

svars == <<req, nsrv, vps, php>>

avars == <<onceUpdater, store, af, upd, ticker, pr, aclock, ticks>>

vars == <<lvars, dvars, cvars, svars, avars>>

\* everything that is not listener state
nonListener == <<dvars, cvars, svars, avars>>
\* everything that is not dialer state
nonDialer == <<lvars, cvars, svars, avars>>
\* everything that is not state of the direct filter
nonDirect == <<lvars, dvars, svars, avars>>
\* everything that is not state of the vps and php filters
nonSelect == <<lvars, dvars, cvars, avars>>
\* everything that is not state of the autoproxy filter
nonAuto == <<lvars, dvars, cvars, svars>>

(***************************************************************************)
(* Listener: src/unnamed/part_000                                          *)
(***************************************************************************)
\* the goroutines of the model: two callers of Accept (each in a loop), two
\* callers of Add, two callers of Close (each calls it once)
Acceptors == {1, 2}
Adders == {1, 2}
Closers == {1, 2}

\* a connection is named by the path that submitted it (0: the acceptance
\* worker, p > 0: Add caller p) and its number on that path
NoConn == [src |-> -1, seq |-> 0]
Conn(s, n) == [src |-> s, seq |-> n]

\* type racer struct { conn net.Conn; err error }
racer(c, e) == [conn |-> c, err |-> e]
\* the zero value a receive on a closed, drained channel yields
zeroRacer == racer(NoConn, "nil")

Running == panicked = "none"

\* l.mu is free, or held by an Add or a Close caller
Free == [kind |-> "free", id |-> 0]
HeldBy(k, i) == [kind |-> k, id |-> i]

ListenTCP ==
    /\ lane = <<>>
    /\ laneClosed = FALSE
    /\ stopped = FALSE
    /\ mu = Free
    /\ once = FALSE
    /\ lnOpen = TRUE
    /\ worker = [pc |-> "none", r |-> zeroRacer, tempDelay |-> 0]
    /\ accPc = [a \in Acceptors |-> "idle"]
    /\ addPc = [p \in Adders |-> "idle"]
    /\ closePc = [c \in Closers |-> "idle"]
    /\ panicked = "none"
    /\ env = [conns |-> 0, tempErrs |-> 0]
    /\ hist = [workersStarted |-> 0,
               acceptCalled |-> FALSE,
               lnAccepts |-> 0,
               delivered |-> <<>>,
               errsReturned |-> 0,
               nilNil |-> FALSE,
               published |-> 0,
               permPublished |-> 0,
               addCalls |-> [p \in Adders |-> 0],
               addOk |-> [p \in Adders |-> 0],
               addAfterClose |-> [p \in Adders |-> FALSE],
               addRet |-> [p \in Adders |-> "none"],
               laneCloses |-> 0,
               lnCloses |-> 0,
               closer |-> 0,
               closeDone |-> FALSE,
               closeRet |-> [c \in Closers |-> "none"]]

(* ---- the acceptance goroutine, Accept lines 84-106 ---- *)

\* what l.ln.Accept() can return now: a connection, a temporary error or a
\* non-temporary error while the listener is open, only the non-temporary
\* "use of closed network connection" once it is closed
AcceptOutcomes ==
    IF lnOpen
    THEN (IF env.conns + env.tempErrs < MaxResults THEN {"conn", "temp"} ELSE {})
         \cup {"perm"}
    ELSE {"perm"}

\* line 87: conn, err := l.ln.Accept()
WorkerAccept ==
    /\ Running
    /\ worker.pc = "accept"
    /\ \E o \in AcceptOutcomes :
          /\ worker' = [worker EXCEPT
                          !.pc = "send",
                          !.r = IF o = "conn"
                                THEN racer(Conn(0, env.conns + 1), "nil")
                                ELSE racer(NoConn, o)]
          /\ env' = [conns |-> env.conns + (IF o = "conn" THEN 1 ELSE 0),
                     tempErrs |-> env.tempErrs + (IF o = "temp" THEN 1 ELSE 0)]
    /\ hist' = [hist EXCEPT !.lnAccepts = @ + 1]
    /\ UNCHANGED <<lane, laneClosed, stopped, mu, once, lnOpen, accPc, addPc,
                   closePc, panicked>>
    /\ UNCHANGED nonListener

\* where the worker goes after publishing r (lines 89-104)
AfterSend(r) ==
    IF r.err = "nil" THEN "accept"
    ELSE IF r.err = "temp" THEN "sleep"
    ELSE "done"

\* line 88: l.lane <- racer{conn, err}; blocks while the channel is full,
\* panics when the channel is closed
WorkerSend ==
    /\ Running
    /\ worker.pc = "send"
    /\ laneClosed \/ Len(lane) < backlog
    /\ IF laneClosed
       THEN /\ panicked' = "worker"
            /\ UNCHANGED <<lane, worker, hist>>
       ELSE /\ lane' = Append(lane, worker.r)
            /\ worker' = [worker EXCEPT !.pc = AfterSend(worker.r)]
            /\ hist' = [hist EXCEPT
                          !.published = @ + 1,
                          !.permPublished =
                              @ + (IF worker.r.err = "perm" THEN 1 ELSE 0)]
            /\ UNCHANGED panicked
    /\ UNCHANGED <<laneClosed, stopped, mu, once, lnOpen, accPc, addPc,
                   closePc, env>>
    /\ UNCHANGED nonListener

\* lines 91-98: 5 ms at first, doubled on every further temporary error,
\* capped at 1 s (in milliseconds)
NextTempDelay(d) ==
    LET t == IF d = 0 THEN 5 ELSE d * 2
    IN IF t > 1000 THEN 1000 ELSE t

\* lines 90-101: back off and retry
WorkerSleep ==
    /\ Running
    /\ worker.pc = "sleep"
    /\ worker' = [worker EXCEPT !.pc = "accept",
                                !.tempDelay = NextTempDelay(@)]
    /\ UNCHANGED <<lane, laneClosed, stopped, mu, once, lnOpen, accPc, addPc,
                   closePc, panicked, env, hist>>
    /\ UNCHANGED nonListener

(* ---- Accept, lines 82-122 ---- *)

\* Accept's start of the goroutine without the sync.Once around it
AcceptNoOnce(a) ==
    /\ Running
    /\ accPc[a] = "idle"
    /\ accPc' = [accPc EXCEPT ![a] = "recv"]
    /\ once' = TRUE
    /\ worker' = [worker EXCEPT !.pc = "accept"]
    /\ hist' = [hist EXCEPT !.acceptCalled = TRUE, !.workersStarted = @ + 1]
    /\ UNCHANGED <<lane, laneClosed, stopped, mu, lnOpen, addPc, closePc,
                   panicked, env>>
    /\ UNCHANGED nonListener

\* lines 83-107: l.once.Do starts the acceptance goroutine on the first call
AcceptOnce(a) ==
    /\ Running
    /\ accPc[a] = "idle"
    /\ accPc' = [accPc EXCEPT ![a] = "recv"]
    /\ once' = TRUE
    /\ IF once
       THEN /\ UNCHANGED worker
            /\ hist' = [hist EXCEPT !.acceptCalled = TRUE]
       ELSE /\ worker' = [worker EXCEPT !.pc = "accept"]
            /\ hist' = [hist EXCEPT !.acceptCalled = TRUE,
                                    !.workersStarted = @ + 1]
    /\ UNCHANGED <<lane, laneClosed, stopped, mu, lnOpen, addPc, closePc,
                   panicked, env>>
    /\ UNCHANGED nonListener

\* the value r := <-l.lane yields: the oldest queued racer, or the zero value
\* when the channel is closed and drained
Received(q) == IF q /= <<>> THEN Head(q) ELSE zeroRacer

\* an Accept that returns the oldest racer and leaves it in the channel
AcceptPeek(a) ==
    /\ Running
    /\ accPc[a] = "recv"
    /\ lane /= <<>> \/ laneClosed
    /\ LET r == Received(lane)
       IN hist' = IF r.err /= "nil"
                  THEN [hist EXCEPT !.errsReturned = @ + 1]
                  ELSE IF r.conn = NoConn
                  THEN [hist EXCEPT !.nilNil = TRUE]
                  ELSE [hist EXCEPT !.delivered = Append(@, r.conn)]
    /\ accPc' = [accPc EXCEPT ![a] = "idle"]
    /\ UNCHANGED <<lane, laneClosed, stopped, mu, once, lnOpen, worker, addPc,
                   closePc, panicked, env>>
    /\ UNCHANGED nonListener

\* lines 109-121: receive one racer and return it
AcceptRecv(a) ==
    /\ Running
    /\ accPc[a] = "recv"
    /\ lane /= <<>> \/ laneClosed
    /\ LET r == Received(lane)
       IN /\ lane' = IF lane /= <<>> THEN Tail(lane) ELSE lane
          /\ hist' = IF r.err /= "nil"
                     THEN [hist EXCEPT !.errsReturned = @ + 1]
                     ELSE IF r.conn = NoConn
                     THEN [hist EXCEPT !.nilNil = TRUE]
                     ELSE [hist EXCEPT !.delivered = Append(@, r.conn)]
    /\ accPc' = [accPc EXCEPT ![a] = "idle"]
    /\ UNCHANGED <<laneClosed, stopped, mu, once, lnOpen, worker, addPc,
                   closePc, panicked, env>>
    /\ UNCHANGED nonListener

(* ---- Add, lines 146-157 ---- *)

\* Add calls begun so far
RECURSIVE SumOver(_, _)
SumOver(f, S) ==
    IF S = {} THEN 0
    ELSE LET x == CHOOSE y \in S : TRUE IN f[x] + SumOver(f, S \ {x})
AddCallsMade == SumOver(hist.addCalls, Adders)

\* line 147: the call begins and takes l.mu
AddLock(p) ==
    /\ Running
    /\ addPc[p] = "idle"
    /\ AddCallsMade < MaxAdds
    /\ mu = Free
    /\ mu' = HeldBy("add", p)
    /\ addPc' = [addPc EXCEPT ![p] = "check"]
    /\ hist' = [hist EXCEPT !.addCalls[p] = @ + 1,
                            !.addAfterClose[p] = hist.closeDone,
                            !.addRet[p] = "none"]
    /\ UNCHANGED <<lane, laneClosed, stopped, once, lnOpen, worker, accPc,
                   closePc, panicked, env>>
    /\ UNCHANGED nonListener

\* lines 150-152: a stopped listener refuses the connection
AddCheck(p) ==
    /\ Running
    /\ addPc[p] = "check"
    /\ IF stopped
       THEN /\ mu' = Free
            /\ addPc' = [addPc EXCEPT ![p] = "idle"]
            /\ hist' = [hist EXCEPT !.addRet[p] = "closed"]
       ELSE /\ addPc' = [addPc EXCEPT ![p] = "send"]
            /\ UNCHANGED <<mu, hist>>
    /\ UNCHANGED <<lane, laneClosed, stopped, once, lnOpen, worker, accPc,
                   closePc, panicked, env>>
    /\ UNCHANGED nonListener

\* lines 154-156: l.lane <- racer{conn, nil} with l.mu held, then unlock
AddSend(p) ==
    /\ Running
    /\ addPc[p] = "send"
    /\ laneClosed \/ Len(lane) < backlog
    /\ IF laneClosed
       THEN /\ panicked' = "add"
            /\ UNCHANGED <<lane, mu, addPc, hist>>
       ELSE /\ lane' = Append(lane, racer(Conn(p, hist.addCalls[p]), "nil"))
            /\ mu' = Free
            /\ addPc' = [addPc EXCEPT ![p] = "idle"]
            /\ hist' = [hist EXCEPT !.addOk[p] = @ + 1,
                                    !.addRet[p] = "nil"]
            /\ UNCHANGED panicked
    /\ UNCHANGED <<laneClosed, stopped, once, lnOpen, worker, accPc, closePc,
                   env>>
    /\ UNCHANGED nonListener

(* ---- Close, lines 124-133 ---- *)

\* line 125: l.mu.Lock()
CloseLock(c) ==
    /\ Running
    /\ closePc[c] = "idle"
    /\ mu = Free
    /\ mu' = HeldBy("close", c)
    /\ closePc' = [closePc EXCEPT ![c] = "check"]
    /\ UNCHANGED <<lane, laneClosed, stopped, once, lnOpen, worker, accPc,
                   addPc, panicked, env, hist>>
    /\ UNCHANGED nonListener

\* Close without the test of l.stopped
CloseNoCheck(c) ==
    /\ Running
    /\ closePc[c] = "check"
    /\ stopped' = TRUE
    /\ closePc' = [closePc EXCEPT ![c] = "closeLane"]
    /\ UNCHANGED <<lane, laneClosed, mu, once, lnOpen, worker, accPc, addPc,
                   panicked, env, hist>>
    /\ UNCHANGED nonListener

\* lines 127-130: a second Close returns nil at once
CloseCheck(c) ==
    /\ Running
    /\ closePc[c] = "check"
    /\ IF stopped
       THEN /\ mu' = Free
            /\ closePc' = [closePc EXCEPT ![c] = "done"]
            /\ hist' = [hist EXCEPT !.closeRet[c] = "nil"]
            /\ UNCHANGED stopped
       ELSE /\ stopped' = TRUE
            /\ closePc' = [closePc EXCEPT ![c] = "closeLane"]
            /\ UNCHANGED <<mu, hist>>
    /\ UNCHANGED <<lane, laneClosed, once, lnOpen, worker, accPc, addPc,
                   panicked, env>>
    /\ UNCHANGED nonListener

\* line 131: close(l.lane); closing a closed channel panics
CloseLane(c) ==
    /\ Running
    /\ closePc[c] = "closeLane"
    /\ IF laneClosed
       THEN /\ panicked' = "close"
            /\ UNCHANGED <<laneClosed, closePc, hist>>
       ELSE /\ laneClosed' = TRUE
            /\ closePc' = [closePc EXCEPT ![c] = "closeLn"]
            /\ hist' = [hist EXCEPT !.laneCloses = @ + 1, !.closer = c]
            /\ UNCHANGED panicked
    /\ UNCHANGED <<lane, stopped, mu, once, lnOpen, worker, accPc, addPc, env>>
    /\ UNCHANGED nonListener

\* lines 132 and 126: return l.ln.Close(), releasing l.mu
CloseLn(c) ==
    /\ Running
    /\ closePc[c] = "closeLn"
    /\ lnOpen' = FALSE
    /\ mu' = Free
    /\ closePc' = [closePc EXCEPT ![c] = "done"]
    /\ hist' = [hist EXCEPT !.lnCloses = @ + 1,
                            !.closeDone = TRUE,
                            !.closeRet[c] = IF lnOpen THEN "nil" ELSE "err"]
    /\ UNCHANGED <<lane, laneClosed, stopped, once, worker, accPc, addPc,
                   panicked, env>>
    /\ UNCHANGED nonListener

(***************************************************************************)
(* Dialer: src/httpproxy/transport/direct/dialer.go                        *)
(* Durations and times are in milliseconds.                                *)
(***************************************************************************)
DefaultRetryTimes == 2
DefaultRetryDelay == 100
DefaultDNSCacheExpires == 3600000
DefaultDNSCacheSize == 8192

Nil == [nil |-> TRUE]

\* addresses handed to Dial: host:port, or a string SplitHostPort rejects
Addr(h, p) == [host |-> h, port |-> p]
Addresses == {Addr("example", "80"), Addr("other", "443"), Addr("noport", "")}

\* net.SplitHostPort(address)
SplitHostPort(a) ==
    IF a.port = "" THEN [err |-> "missing port", host |-> "", port |-> ""]
    ELSE [err |-> "nil", host |-> a.host, port |-> a.port]

\* net.JoinHostPort(ip, port)
JoinHostPort(ip, port) == Addr(ip, port)

\* what net.LookupIP(host) can answer: an error, no address, or a list whose
\* first address is one of these
IPs == {"::1", "10.0.0.1", "93.184.216.34"}
Lookups == {"err", "empty"} \cup IPs

\* net.InterfaceAddrs(): the network and the string of each local address
InterfaceAddrs ==
    {[net |-> "ip", str |-> "10.0.0.1"],
     [net |-> "ip+net", str |-> "192.168.1.2/24"]}

TCPNetworks == {"tcp", "tcp4", "tcp6"}
Networks == {"tcp", "udp"}

\* lrucache.NewLRUCache(capacity): keys in order of use, least recent first
NewLRUCache(capacity) == [capacity |-> capacity, entries |-> <<>>]

\* Cache.Get(key): the entry of key when it has one that has not expired
CacheGet(c, key, t) ==
    LET hits == SelectSeq(c.entries, LAMBDA e : e.key = key /\ t < e.expire)
    IN IF hits = <<>> THEN [ok |-> FALSE, value |-> Nil]
       ELSE [ok |-> TRUE, value |-> hits[1].value]

\* Cache.Set(key, value, expire): replaces the entry of key, evicting the
\* least recently used entry when the cache is full
CacheSet(c, key, value, expire) ==
    LET others == SelectSeq(c.entries, LAMBDA e : e.key /= key)
        kept == IF Len(others) >= c.capacity /\ others /= <<>>
                THEN Tail(others) ELSE others
    IN [c EXCEPT !.entries =
            Append(kept, [key |-> key, value |-> value, expire |-> expire])]

\* lines 35-60: what the function passed to d.once.Do does to the Dialer d it
\* closes over
initDo(d) ==
    LET size == IF d.DNSCacheSize = 0 THEN DefaultDNSCacheSize
                ELSE d.DNSCacheSize
    IN [d EXCEPT
          !.RetryTimes = IF @ = 0 THEN DefaultRetryTimes ELSE @,
          !.RetryDelay = IF @ = 0 THEN DefaultRetryDelay ELSE @,
          !.DNSCacheExpires = IF @ = 0 THEN DefaultDNSCacheExpires ELSE @,
          !.DNSCacheSize = size,
          !.dnsCache = NewLRUCache(size),
          !.loAddrs = {"::1"} \cup
                      {a.str : a \in {b \in InterfaceAddrs : b.net = "ip"}},
          !.once = TRUE]

\* lines 33-62: func (d Dialer) init() has a value receiver, so it runs on a
\* copy of the Dialer it is called on; callee is that copy when init returns
\* (then dropped), caller is the Dialer of the caller, which no statement of
\* init writes
init(d) ==
    [callee |-> IF d.once THEN d ELSE initDo(d),
     caller |-> d]

\* a Dialer as a caller builds it: the exported fields set or left zero, the
\* unexported ones zero
Dialers ==
    [RetryTimes : 0..MaxRetryTimes,
     RetryDelay : {0, 50},
     DNSCacheExpires : {0, 60000},
     DNSCacheSize : {0, 1},
     dnsCache : {Nil},
     loAddrs : {Nil},
     once : {FALSE}]

NoFrame ==
    [pc |-> "idle", d |-> Nil, network |-> "", address |-> Nil,
     asked |-> Nil, lookup |-> "none", hit |-> FALSE, i |-> 0,
     conn |-> "nil", err |-> "nil",
     attempts |-> 0, fails |-> 0, delays |-> 0, resolutions |-> 0, sets |-> 0]

DialerIdle ==
    /\ dialer = [RetryTimes |-> 0, RetryDelay |-> 0, DNSCacheExpires |-> 0,
                 DNSCacheSize |-> 0, dnsCache |-> Nil, loAddrs |-> Nil,
                 once |-> FALSE]
    /\ dl = NoFrame
    /\ now = 0
    /\ dcount = [dials |-> 0, ticks |-> 0]

\* the dialer of any configuration, nothing dialled yet
DialerAny ==
    /\ dialer \in Dialers
    /\ dl = NoFrame
    /\ now = 0
    /\ dcount = [dials |-> 0, ticks |-> 0]

\* lines 69-86 with a cache in d: the frame at the retry loop, or at the return
\* of line 77
Resolve(f, lookup) ==
    LET got == CacheGet(f.d.dnsCache, f.address, now)
        hp == SplitHostPort(f.address)
    IN IF got.ok
       THEN [f EXCEPT !.address = got.value, !.hit = TRUE, !.pc = "loop"]
       ELSE IF hp.err /= "nil"
       THEN [f EXCEPT !.pc = "loop"]
       ELSE IF lookup \in {"err", "empty"}
       THEN [f EXCEPT !.resolutions = 1, !.pc = "loop"]
       ELSE IF f.d.loAddrs /= Nil /\ lookup \in f.d.loAddrs
       THEN [f EXCEPT !.resolutions = 1, !.err = "InvalidAddr",
                      !.pc = "returned"]
       ELSE [f EXCEPT
               !.resolutions = 1,
               !.sets = 1,
               !.d.dnsCache = CacheSet(@, f.address,
                                       JoinHostPort(lookup, hp.port),
                                       now + f.d.DNSCacheExpires),
               !.address = JoinHostPort(lookup, hp.port),
               !.pc = "loop"]

\* lines 64-89: Dial (value receiver: d is a copy of the caller's Dialer)
\* calls d.init() and, for a TCP network, consults d.dnsCache; a method call
\* on the nil interface d.dnsCache panics
DialCall(network, address, lookup) ==
    /\ dl.pc = "idle"
    /\ dcount.dials < MaxDials
    /\ dcount' = [dcount EXCEPT !.dials = @ + 1]
    /\ LET f == [NoFrame EXCEPT !.d = init(dialer).caller,
                                !.network = network,
                                !.address = address,
                                !.asked = address,
                                !.lookup = lookup]
       IN dl' = IF network \notin TCPNetworks
                THEN [f EXCEPT !.pc = "loop"]
                ELSE IF f.d.dnsCache = Nil
                THEN [f EXCEPT !.pc = "panicked"]
                ELSE Resolve(f, lookup)
    /\ UNCHANGED <<dialer, now>>
    /\ UNCHANGED nonDialer

\* lines 90-96: one turn of the retry loop, the connect failing or succeeding
DialAttempt(ok) ==
    /\ dl.pc = "loop"
    /\ dl.i < dl.d.RetryTimes
    /\ LET last == ok \/ dl.i = dl.d.RetryTimes - 1
       IN /\ dl' = [dl EXCEPT
                      !.conn = IF ok THEN "conn" ELSE "nil",
                      !.err = IF ok THEN "nil" ELSE "connectErr",
                      !.attempts = @ + 1,
                      !.fails = @ + (IF ok THEN 0 ELSE 1),
                      !.delays = @ + (IF last THEN 0 ELSE 1),
                      !.i = IF last THEN @ ELSE @ + 1,
                      !.pc = IF last THEN "returned" ELSE "loop"]
          /\ now' = IF last THEN now ELSE now + dl.d.RetryDelay
    /\ UNCHANGED <<dialer, dcount>>
    /\ UNCHANGED nonDialer

\* lines 90 and 97: the loop condition fails at once, return conn, err
DialSkipLoop ==
    /\ dl.pc = "loop"
    /\ ~(dl.i < dl.d.RetryTimes)
    /\ dl' = [dl EXCEPT !.pc = "returned"]
    /\ UNCHANGED <<dialer, now, dcount>>
    /\ UNCHANGED nonDialer

\* the caller has the result (or has recovered the panic) and may call again;
\* Dial's copy of the Dialer is gone
DialDone ==
    /\ dl.pc \in {"returned", "panicked"}
    /\ dl' = NoFrame
    /\ UNCHANGED <<dialer, now, dcount>>
    /\ UNCHANGED nonDialer

\* an hour passes between two calls
Tick ==
    /\ dl.pc = "idle"
    /\ dcount.ticks < MaxTicks
    /\ dcount' = [dcount EXCEPT !.ticks = @ + 1]
    /\ now' = now + 3600000
    /\ UNCHANGED <<dialer, dl>>
    /\ UNCHANGED nonDialer

DialerNext ==
    \/ \E n \in Networks, a \in Addresses, l \in Lookups : DialCall(n, a, l)
    \/ \E ok \in BOOLEAN : DialAttempt(ok)
    \/ DialSkipLoop
    \/ DialDone
    \/ Tick

(***************************************************************************)
(* Direct filter: src/unnamed/part_001, lines 246-315                      *)
(***************************************************************************)
Methods == {"CONNECT", "PRI", "GET"}

\* err.Error() of an ordinary dial or round-trip failure, as a string of bytes
ErrTexts == {<<"t">>, <<"r", "f">>}
\* int64(len(data)) of line 304
ContentLength(data) == Len(data)
\* a 502 whose Content-Length is not computed from the body
BadGatewayNoLength(data) ==
    [status |-> 502, body |-> data, contentLength |-> 0]

\* lines 295-306: the synthesized 502 response
BadGateway(data) ==
    [status |-> 502, body |-> data, contentLength |-> ContentLength(data)]
\* no response, and the response an upstream server gave
NilResp == [status |-> 0, body |-> <<>>, contentLength |-> 0]
UpstreamResp == [status |-> 200, body |-> <<>>, contentLength |-> 0]

DirectIdle ==
    /\ cf = [pc |-> "idle", method |-> "", hijacker |-> FALSE,
             flusher |-> FALSE, resp |-> NilResp, err |-> "nil",
             hijacked |-> FALSE, rconn |-> "none", cause |-> <<>>]
    /\ tun = [client |-> "open", upstream |-> "open", lconnClosed |-> FALSE,
              c2u |-> 0, u2c |-> 0, sentC |-> 0, sentU |-> 0,
              goPc |-> "none"]
    /\ cev = <<>>

\* the event e has happened, and happened before event g
Happened(e) == \E i \in 1..Len(cev) : cev[i] = e
Before(e, g) == \E i, j \in 1..Len(cev) : i < j /\ cev[i] = e /\ cev[j] = g
\* each kind of event is recorded when it first happens
Record(e) == IF Happened(e) THEN cev ELSE Append(cev, e)

\* lines 246-248, 281-283: the switch on req.Method; PRI passes through
RoundTripCall(m, h, fl) ==
    /\ cf.pc = "idle"
    /\ cf' = [cf EXCEPT !.method = m, !.hijacker = h, !.flusher = fl,
                        !.pc = IF m = "CONNECT" THEN "dial"
                               ELSE IF m = "PRI" THEN "returned"
                               ELSE "transport"]
    /\ UNCHANGED <<tun, cev>>
    /\ UNCHANGED nonDirect

\* lines 250-253: rconn, err := f.transport.Dial("tcp", req.Host)
ConnectDial(ok) ==
    /\ cf.pc = "dial"
    /\ IF ok
       THEN /\ cf' = [cf EXCEPT !.rconn = "open", !.pc = "assert"]
            /\ cev' = Record("dialOk")
       ELSE /\ \E e \in ErrTexts :
                 cf' = [cf EXCEPT !.err = "dialErr", !.cause = e,
                                  !.pc = "returned"]
            /\ UNCHANGED cev
    /\ UNCHANGED tun
    /\ UNCHANGED nonDirect

\* lines 255-265: the response writer must be a Hijacker and a Flusher
ConnectAssert ==
    /\ cf.pc = "assert"
    /\ cf' = IF ~cf.hijacker
             THEN [cf EXCEPT !.err = "notHijacker", !.pc = "returned"]
             ELSE IF ~cf.flusher
             THEN [cf EXCEPT !.err = "notFlusher", !.pc = "returned"]
             ELSE [cf EXCEPT !.pc = "status"]
    /\ UNCHANGED <<tun, cev>>
    /\ UNCHANGED nonDirect

\* line 267: rw.WriteHeader(http.StatusOK)
ConnectWriteHeader ==
    /\ cf.pc = "status"
    /\ cf' = [cf EXCEPT !.pc = "flush"]
    /\ cev' = Record("status200")
    /\ UNCHANGED tun
    /\ UNCHANGED nonDirect

\* line 268: flusher.Flush()
ConnectFlush ==
    /\ cf.pc = "flush"
    /\ cf' = [cf EXCEPT !.pc = "hijack"]
    /\ cev' = Record("flush")
    /\ UNCHANGED tun
    /\ UNCHANGED nonDirect

\* lines 270-276: Hijack(); on success defer lconn.Close() and start
\* go httpproxy.IoCopy(rconn, lconn)
ConnectHijack(ok) ==
    /\ cf.pc = "hijack"
    /\ IF ok
       THEN /\ cf' = [cf EXCEPT !.pc = "relay"]
            /\ tun' = [tun EXCEPT !.goPc = "run"]
            /\ cev' = Record("hijackOk")
       ELSE /\ cf' = [cf EXCEPT !.err = "hijackErr", !.pc = "returned"]
            /\ UNCHANGED <<tun, cev>>
    /\ UNCHANGED nonDirect

\* line 276, httpproxy.IoCopy(rconn, lconn): a chunk read from the client is
\* written upstream; a write to the closed upstream fails and ends the copy
PumpGoCopy ==
    /\ tun.goPc = "run"
    /\ ~tun.lconnClosed
    /\ tun.c2u > 0
    /\ IF tun.upstream = "closed"
       THEN /\ tun' = [tun EXCEPT !.c2u = @ - 1, !.goPc = "done"]
            /\ UNCHANGED cev
       ELSE /\ tun' = [tun EXCEPT !.c2u = @ - 1]
            /\ cev' = Record("relay")
    /\ UNCHANGED cf
    /\ UNCHANGED nonDirect

\* line 276: the copy ends when the read of lconn ends: the client has closed
\* and all it sent is read, or lconn was closed under the reader
PumpGoEnd ==
    /\ tun.goPc = "run"
    /\ tun.lconnClosed \/ (tun.c2u = 0 /\ tun.client = "closed")
    /\ tun' = [tun EXCEPT !.goPc = "done"]
    /\ UNCHANGED <<cf, cev>>
    /\ UNCHANGED nonDirect

\* line 277, httpproxy.IoCopy(lconn, rconn): a chunk read from upstream is
\* written to the client; a write to the closed client fails and ends the copy
PumpCallerCopy ==
    /\ cf.pc = "relay"
    /\ tun.u2c > 0
    /\ IF tun.client = "closed"
       THEN /\ tun' = [tun EXCEPT !.u2c = @ - 1]
            /\ cf' = [cf EXCEPT !.pc = "finish"]
            /\ UNCHANGED cev
       ELSE /\ tun' = [tun EXCEPT !.u2c = @ - 1]
            /\ cev' = Record("relay")
            /\ UNCHANGED cf
    /\ UNCHANGED nonDirect

\* line 277: the copy ends when the read of rconn ends: upstream has closed
\* and all it sent is read
PumpCallerEnd ==
    /\ cf.pc = "relay"
    /\ tun.u2c = 0
    /\ tun.upstream = "closed"
    /\ cf' = [cf EXCEPT !.pc = "finish"]
    /\ UNCHANGED <<tun, cev>>
    /\ UNCHANGED nonDirect

\* a return after the relay that leaves the context unmarked
ConnectFinishUnmarked ==
    /\ cf.pc = "finish"
    /\ cf' = [cf EXCEPT !.pc = "returned"]
    /\ tun' = [tun EXCEPT !.lconnClosed = TRUE]
    /\ UNCHANGED cev
    /\ UNCHANGED nonDirect

\* lines 279-280 and the deferred lconn.Close() of line 274
ConnectFinish ==
    /\ cf.pc = "finish"
    /\ cf' = [cf EXCEPT !.hijacked = TRUE, !.pc = "returned"]
    /\ tun' = [tun EXCEPT !.lconnClosed = TRUE]
    /\ cev' = Record("setHijacked")
    /\ UNCHANGED nonDirect

\* lines 285-313: any other method goes through f.transport.RoundTrip; the
\* loopback error is answered from the local files, any other error by a 502
DirectRoundTrip(outcome) ==
    /\ cf.pc = "transport"
    /\ IF outcome = "ErrLoopbackAddr"
       THEN cf' = [cf EXCEPT !.hijacked = TRUE, !.pc = "returned"]
       ELSE IF outcome = "err"
       THEN \E e \in ErrTexts :
               cf' = [cf EXCEPT !.resp = BadGateway(e), !.cause = e,
                                !.pc = "returned"]
       ELSE cf' = [cf EXCEPT !.resp = UpstreamResp, !.pc = "returned"]
    /\ UNCHANGED <<tun, cev>>
    /\ UNCHANGED nonDirect

\* the endpoints of an established tunnel: each may send and may close
ClientSend ==
    /\ Happened("hijackOk")
    /\ tun.client = "open"
    /\ tun.sentC < MaxChunks
    /\ tun' = [tun EXCEPT !.c2u = @ + 1, !.sentC = @ + 1]
    /\ UNCHANGED <<cf, cev>>
    /\ UNCHANGED nonDirect

UpstreamSend ==
    /\ Happened("hijackOk")
    /\ tun.upstream = "open"
    /\ tun.sentU < MaxChunks
    /\ tun' = [tun EXCEPT !.u2c = @ + 1, !.sentU = @ + 1]
    /\ UNCHANGED <<cf, cev>>
    /\ UNCHANGED nonDirect

ClientClose ==
    /\ Happened("hijackOk")
    /\ tun.client = "open"
    /\ tun' = [tun EXCEPT !.client = "closed"]
    /\ UNCHANGED <<cf, cev>>
    /\ UNCHANGED nonDirect

UpstreamClose ==
    /\ Happened("hijackOk")
    /\ tun.upstream = "open"
    /\ tun' = [tun EXCEPT !.upstream = "closed"]
    /\ UNCHANGED <<cf, cev>>
    /\ UNCHANGED nonDirect

\* the steps of the filter's own goroutines once the tunnel is up
RelayStep ==
    \/ PumpGoCopy
    \/ PumpGoEnd
    \/ PumpCallerCopy
    \/ PumpCallerEnd
    \/ ConnectFinish

DirectNext ==
    \/ \E m \in Methods, h \in BOOLEAN, fl \in BOOLEAN : RoundTripCall(m, h, fl)
    \/ \E ok \in BOOLEAN : ConnectDial(ok)
    \/ ConnectAssert
    \/ ConnectWriteHeader
    \/ ConnectFlush
    \/ \E ok \in BOOLEAN : ConnectHijack(ok)
    \/ PumpGoCopy
    \/ PumpGoEnd
    \/ PumpCallerCopy
    \/ PumpCallerEnd
    \/ ConnectFinish
    \/ \E o \in {"ok", "err", "ErrLoopbackAddr"} : DirectRoundTrip(o)
    \/ ClientSend
    \/ UpstreamSend
    \/ ClientClose
    \/ UpstreamClose

(***************************************************************************)
(* Backend selection of the vps and php filters:                           *)
(* src/httpproxy/filters/vps/vps.go lines 81-155, src/unnamed/part_001     *)
(* lines 95-141.  A string is the sequence of its characters.              *)
(***************************************************************************)
\* strings.HasPrefix and strings.Contains
HasPrefix(s, prefix) ==
    Len(s) >= Len(prefix) /\ SubSeq(s, 1, Len(prefix)) = prefix
Contains(s, substr) ==
    \E i \in 0..(Len(s) - Len(substr)) : SubSeq(s, i + 1, i + Len(substr)) = substr

\* strings.LastIndex of one character, counting from 1; 0 when absent
LastIndex(s, ch) ==
    LET at == {i \in 1..Len(s) : s[i] = ch}
    IN IF at = {} THEN 0 ELSE CHOOSE i \in at : \A j \in at : j <= i

\* path.Ext: the suffix beginning at the final dot of the final element
Ext(path) ==
    LET dot == LastIndex(path, ".")
    IN IF dot > LastIndex(path, "/") THEN SubSeq(path, dot, Len(path)) ELSE <<>>

\* path.Base: the last element, trailing slashes removed
RECURSIVE StripSlashes(_)
StripSlashes(path) ==
    IF Len(path) > 0 /\ path[Len(path)] = "/"
    THEN StripSlashes(SubSeq(path, 1, Len(path) - 1))
    ELSE path
Base(path) ==
    IF path = <<>> THEN <<".">>
    ELSE LET stripped == StripSlashes(path)
             name == SubSeq(stripped, LastIndex(stripped, "/") + 1, Len(stripped))
         IN IF name = <<>> THEN <<"/">> ELSE name

\* the request paths and hosts tried: directory, name and extension
PathDirs ==
    {<<"/">>,
     <<"/", "x", "/">>,
     <<"/", "s", "t", "a", "t", "i", "c", "/">>,
     <<"/", "a", "s", "s", "e", "t", "/">>,
     <<"/", "a", "/", "c", "a", "c", "h", "e", "/">>,
     <<"/", "v", "i", "d", "e", "o", "/">>}
PathNames ==
    {<<>>,
     <<"p", "a", "g", "e">>,
     <<"p", "l", "a", "y">>,
     <<"x", "v", "i", "d", "e", "o", "s">>,
     <<"m", "i", "n">>}
PathExts ==
    {<<>>,
     <<".", "j", "p", "g">>,
     <<".", "p", "n", "g">>,
     <<".", "w", "e", "b", "p">>,
     <<".", "b", "m", "p">>,
     <<".", "g", "i", "f">>,
     <<".", "f", "l", "v">>,
     <<".", "m", "p", "4">>,
     <<".", "h", "t", "m", "l">>,
     <<".", "j", "s">>,
     <<".", "J", "P", "G">>}
Paths == {<<>>} \cup {d \o n \o e : d \in PathDirs, n \in PathNames, e \in PathExts}
Hosts ==
    {<<"a", ".", "c", "o", "m">>,
     <<"i", "m", "g", ".", "a", ".", "c", "o", "m">>,
     <<"i", "m", "g", "u", "r", ".", "c", "o", "m">>,
     <<"c", "a", "c", "h", "e", ".", "a", ".", "c", "o", "m">>,
     <<"v", "i", "d", "e", "o", ".", "a", ".", "c", "o", "m">>,
     <<"s", "t", "a", "t", "i", "c", ".", "a", ".", "c", "o", "m">>,
     <<"m", "y", "s", "t", "a", "t", "i", "c", ".", "c", "o", "m">>}
Requests == [matched : BOOLEAN, host : Hosts, path : Paths]

\* rand.Intn(n): any of 0 .. n-1
Intn(n) == 0..(n - 1)

\* the extensions of the first case of the switch on path.Ext
MediaExts ==
    {<<".", "j", "p", "g">>,
     <<".", "p", "n", "g">>,
     <<".", "w", "e", "b", "p">>,
     <<".", "b", "m", "p">>,
     <<".", "g", "i", "f">>,
     <<".", "f", "l", "v">>,
     <<".", "m", "p", "4">>}

\* the host and path tests of the default case (vps.go 97-107, part_001
\* 111-121)
StaticPatterns(r) ==
    \/ Contains(r.host, <<"i", "m", "g", ".">>)
    \/ Contains(r.host, <<"c", "a", "c", "h", "e", ".">>)
    \/ Contains(r.host, <<"v", "i", "d", "e", "o", ".">>)
    \/ Contains(r.host, <<"s", "t", "a", "t", "i", "c", ".">>)
    \/ HasPrefix(r.host, <<"i", "m", "g">>)
    \/ HasPrefix(r.path, <<"/", "s", "t", "a", "t", "i", "c">>)
    \/ HasPrefix(r.path, <<"/", "a", "s", "s", "e", "t">>)
    \/ Contains(r.path, <<"m", "i", "n", ".", "j", "s">>)
    \/ Contains(r.path, <<"s", "t", "a", "t", "i", "c">>)
    \/ Contains(r.path, <<"a", "s", "s", "e", "t">>)
    \/ Contains(r.path, <<"/", "c", "a", "c", "h", "e", "/">>)

\* a selection in which the case "" falls through to the default case
VpsChoicesFallThrough(r, n) ==
    LET ext == Ext(r.path)
        name == Base(r.path)
    IN IF ext \in MediaExts
       THEN Intn(n)
       ELSE IF ext = <<>> /\ (\/ Contains(name, <<"p", "l", "a", "y">>)
                              \/ Contains(name, <<"v", "i", "d", "e", "o">>))
       THEN Intn(n)
       ELSE IF StaticPatterns(r)
       THEN Intn(n)
       ELSE {0}

\* vps.go lines 86-110: the values i may have at line 112
VpsChoices(r, n) ==
    LET ext == Ext(r.path)
        name == Base(r.path)
    IN IF ext \in MediaExts
       THEN Intn(n)
       ELSE IF ext = <<>>
       THEN IF \/ Contains(name, <<"p", "l", "a", "y">>)
               \/ Contains(name, <<"v", "i", "d", "e", "o">>)
            THEN Intn(n)
            ELSE {0}
       ELSE IF StaticPatterns(r)
       THEN Intn(n)
       ELSE {0}

\* part_001 lines 100-124: the values i may have at line 126
PhpChoices(r, n) ==
    LET ext == Ext(r.path)
        name == Base(r.path)
    IN IF ext \in MediaExts
       THEN Intn(n)
       ELSE IF ext = <<>>
       THEN IF \/ Contains(name, <<"p", "l", "a", "y">>)
               \/ Contains(name, <<"v", "i", "d", "e", "o">>)
            THEN Intn(n)
            ELSE {0}
       ELSE IF StaticPatterns(r)
       THEN Intn(n)
       ELSE {0}

\* the context handed to RoundTrip, and a frame that has not begun
Ctx0 == [id |-> 1, hijacked |-> FALSE]
NilCtx == [id |-> 0, hijacked |-> FALSE]
NoReturn == [ctx |-> NilCtx, resp |-> "none", err |-> "none"]
FilterIdle ==
    [pc |-> "idle", selected |-> FALSE, choices |-> {}, i |-> 0,
     fetched |-> FALSE, ctx |-> Ctx0, ret |-> NoReturn]

SelectIdle ==
    /\ req = [matched |-> FALSE, host |-> <<>>, path |-> <<>>]
    /\ nsrv = 1
    /\ vps = FilterIdle
    /\ php = FilterIdle

SelectAny ==
    /\ req \in Requests
    /\ nsrv \in 1..MaxBackends
    /\ vps = FilterIdle
    /\ php = FilterIdle

\* a RoundTrip that does not consult the site list
VpsRoundTripAnySite ==
    /\ vps.pc = "idle"
    /\ \E i \in VpsChoices(req, nsrv) :
          vps' = [vps EXCEPT !.pc = "fetch", !.selected = TRUE,
                             !.choices = VpsChoices(req, nsrv), !.i = i]
    /\ UNCHANGED <<req, nsrv, php>>
    /\ UNCHANGED nonSelect

\* vps.go lines 81-112: pass through when the site list does not match, else
\* pick the fetch server
VpsRoundTrip ==
    /\ vps.pc = "idle"
    /\ IF ~req.matched
       THEN vps' = [vps EXCEPT !.pc = "returned",
                               !.ret = [ctx |-> vps.ctx, resp |-> "nil",
                                        err |-> "nil"]]
       ELSE \E i \in VpsChoices(req, nsrv) :
               vps' = [vps EXCEPT !.pc = "fetch", !.selected = TRUE,
                                  !.choices = VpsChoices(req, nsrv), !.i = i]
    /\ UNCHANGED <<req, nsrv, php>>
    /\ UNCHANGED nonSelect

\* vps.go lines 148-154: resp, err := fetchServer.RoundTrip(req)
VpsFetch(ok) ==
    /\ vps.pc = "fetch"
    /\ vps' = [vps EXCEPT !.pc = "returned", !.fetched = TRUE,
                          !.ret = [ctx |-> vps.ctx,
                                   resp |-> IF ok THEN "upstream" ELSE "nil",
                                   err |-> IF ok THEN "nil" ELSE "fetchErr"]]
    /\ UNCHANGED <<req, nsrv, php>>
    /\ UNCHANGED nonSelect

\* part_001 lines 95-126
PhpRoundTrip ==
    /\ php.pc = "idle"
    /\ IF ~req.matched
       THEN php' = [php EXCEPT !.pc = "returned",
                               !.ret = [ctx |-> php.ctx, resp |-> "nil",
                                        err |-> "nil"]]
       ELSE \E i \in PhpChoices(req, nsrv) :
               php' = [php EXCEPT !.pc = "encode", !.selected = TRUE,
                                  !.choices = PhpChoices(req, nsrv), !.i = i]
    /\ UNCHANGED <<req, nsrv, vps>>
    /\ UNCHANGED nonSelect

\* part_001 lines 128-131: req1, err := fetchServer.encodeRequest(req)
PhpEncode(ok) ==
    /\ php.pc = "encode"
    /\ php' = IF ok
              THEN [php EXCEPT !.pc = "transport"]
              ELSE [php EXCEPT !.pc = "returned",
                               !.ret = [ctx |-> php.ctx, resp |-> "nil",
                                        err |-> "encodeErr"]]
    /\ UNCHANGED <<req, nsrv, vps>>
    /\ UNCHANGED nonSelect

\* part_001 lines 133-140: f.Transport.RoundTrip(ctx, req1), then
\* fetchServer.decodeResponse(res)
PhpFetch(outcome) ==
    /\ php.pc = "transport"
    /\ php' = [php EXCEPT !.pc = "returned", !.fetched = TRUE,
                          !.ret = [ctx |-> php.ctx,
                                   resp |-> IF outcome = "ok" THEN "upstream"
                                            ELSE "nil",
                                   err |-> IF outcome = "ok" THEN "nil"
                                           ELSE outcome]]
    /\ UNCHANGED <<req, nsrv, vps>>
    /\ UNCHANGED nonSelect

SelectNext ==
    \/ VpsRoundTrip
    \/ \E ok \in BOOLEAN : VpsFetch(ok)
    \/ PhpRoundTrip
    \/ \E ok \in BOOLEAN : PhpEncode(ok)
    \/ \E o \in {"ok", "transportErr", "decodeErr"} : PhpFetch(o)

(***************************************************************************)
(* Autoproxy filter: src/unnamed/part_001, lines 317-575.  The content of  *)
(* the blocklist is a version number: 0 for the copy persisted at the      *)
(* start, n for what the n-th fetch of the remote list brings.             *)
(***************************************************************************)
Filters == {1, 2}
Requesters == {1, 2}

\* what the store's header says under Last-Modified: a time in the store's
\* date format, nothing, or text that time.Parse rejects
LastModifiedKinds == {"ok", "absent", "unparsable"}

NoObject == [exists |-> FALSE, content |-> 0, lm |-> 0, lmKind |-> "ok"]

\* an updater that has not been started, lines 461-465
UpdaterNone ==
    [pc |-> "none", trigger |-> "none", consulted |-> FALSE,
     headKind |-> "none", lmSeen |-> 0, nowSeen |-> 0, decision |-> "none",
     fetches |-> 0, before |-> NoObject, data |-> 0, ended |-> "none"]

PacNoReturn == [ctx |-> NilCtx, resp |-> NilResp, err |-> "none"]
PacIdle ==
    [pc |-> "idle", inst |-> 0, uri |-> "none", flushed |-> FALSE,
     ctx |-> Ctx0, ret |-> PacNoReturn]

AutoIdleWith(kinds) ==
    /\ onceUpdater = 0
    /\ store \in [exists : {TRUE}, content : {0}, lm : {0}, lmKind : kinds]
    /\ af = [f \in Filters |-> [state |-> "none", pac |-> 0, starter |-> "none"]]
    /\ upd = [f \in Filters |-> UpdaterNone]
    /\ ticker = [f \in Filters |-> FALSE]
    /\ pr = [r \in Requesters |-> PacIdle]
    /\ aclock = 0
    /\ ticks = 0

AutoIdle == AutoIdleWith({"ok"})
AutoAny == AutoIdleWith(LastModifiedKinds)

\* lines 392-455: NewFilter fails when the object is missing (line 408), else
\* loads the generator from it (lines 416-437) and runs
\* go onceUpdater.Do(f.updater) (line 452)
NewFilter(f) ==
    /\ af[f].state = "none"
    /\ af' = [af EXCEPT ![f] =
                IF store.exists
                THEN [state |-> "made", pac |-> store.content,
                      starter |-> "spawned"]
                ELSE [state |-> "failed", pac |-> 0, starter |-> "none"]]
    /\ UNCHANGED <<onceUpdater, store, upd, ticker, pr, aclock, ticks>>
    /\ UNCHANGED nonAuto

\* a Do that runs the updater of every instance, as a per-instance once would
OnceDoPerInstance(f) ==
    /\ af[f].starter = "spawned"
    /\ af' = [af EXCEPT ![f].starter = "running"]
    /\ upd' = [upd EXCEPT ![f].pc = "select"]
    /\ UNCHANGED <<onceUpdater, store, ticker, pr, aclock, ticks>>
    /\ UNCHANGED nonAuto

\* lines 353-355, 452: the spawned goroutine enters onceUpdater.Do.  The first
\* one in runs f.updater, which never returns, so the Once stays locked and is
\* never done; any later one parks on the lock of the Once for good
OnceDo(f) ==
    /\ af[f].starter = "spawned"
    /\ IF onceUpdater = 0
       THEN /\ onceUpdater' = f
            /\ af' = [af EXCEPT ![f].starter = "running"]
            /\ upd' = [upd EXCEPT ![f].pc = "select"]
       ELSE /\ af' = [af EXCEPT ![f].starter = "blocked"]
            /\ UNCHANGED <<onceUpdater, upd>>
    /\ UNCHANGED <<store, ticker, pr, aclock, ticks>>
    /\ UNCHANGED nonAuto

\* line 464: the channel of time.Tick holds one tick; a tick that finds it
\* full is dropped
TimerFire(f) ==
    /\ upd[f].pc # "none"
    /\ ~ticker[f]
    /\ ticks < MaxTimerTicks
    /\ ticker' = [ticker EXCEPT ![f] = TRUE]
    /\ ticks' = ticks + 1
    /\ UNCHANGED <<onceUpdater, store, af, upd, pr, aclock>>
    /\ UNCHANGED nonAuto

ClockAdvance ==
    /\ aclock < MaxClock
    /\ aclock' = aclock + 1
    /\ UNCHANGED <<onceUpdater, store, af, upd, ticker, pr, ticks>>
    /\ UNCHANGED nonAuto

\* the frame at the top of the loop body, line 467
LoopTop(u, trigger) ==
    [u EXCEPT !.trigger = trigger, !.consulted = FALSE, !.headKind = "none",
              !.lmSeen = 0, !.nowSeen = 0, !.decision = "none",
              !.fetches = 0, !.before = NoObject, !.data = 0,
              !.ended = "none"]

\* lines 470-472 and 554: the updater receives from the unbuffered
\* f.UpdateChan what RoundTrip call r sends, and sets needUpdate
UpdaterRecvFlush(f, r) ==
    /\ upd[f].pc = "select"
    /\ pr[r].pc = "send"
    /\ pr[r].inst = f
    /\ upd' = [upd EXCEPT ![f] =
                 [LoopTop(@, "flush") EXCEPT !.pc = "fetch",
                                             !.decision = "cycle",
                                             !.before = store]]
    /\ pr' = [pr EXCEPT ![r].pc = "generate", ![r].flushed = TRUE]
    /\ UNCHANGED <<onceUpdater, store, af, ticker, aclock, ticks>>
    /\ UNCHANGED nonAuto

\* lines 473-474: the updater receives a tick
UpdaterRecvTick(f) ==
    /\ upd[f].pc = "select"
    /\ ticker[f]
    /\ ticker' = [ticker EXCEPT ![f] = FALSE]
    /\ upd' = [upd EXCEPT ![f] = [LoopTop(@, "tick") EXCEPT !.pc = "check"]]
    /\ UNCHANGED <<onceUpdater, store, af, pr, aclock, ticks>>
    /\ UNCHANGED nonAuto

\* a staleness test that also fires at the very end of the interval
NeedUpdateAtEnd(t, modTime) == t >= modTime + Duration

\* line 496: time.Now().After(modTime.Add(f.GFWList.Duration))
NeedUpdate(t, modTime) == t > modTime + Duration

\* lines 477-497: a tick consults the stored object's Last-Modified
UpdaterCheck(f) ==
    /\ upd[f].pc = "check"
    /\ LET headKind == IF store.exists THEN store.lmKind ELSE "headErr"
           u == [upd[f] EXCEPT !.consulted = TRUE, !.headKind = headKind]
       IN upd' = [upd EXCEPT ![f] =
                    IF headKind # "ok"
                    THEN [u EXCEPT !.decision = "skip", !.pc = "select"]
                    ELSE IF NeedUpdate(aclock, store.lm)
                    THEN [u EXCEPT !.lmSeen = store.lm, !.nowSeen = aclock,
                                   !.decision = "cycle", !.before = store,
                                   !.pc = "fetch"]
                    ELSE [u EXCEPT !.lmSeen = store.lm, !.nowSeen = aclock,
                                   !.decision = "skip", !.pc = "select"]]
    /\ UNCHANGED <<onceUpdater, store, af, ticker, pr, aclock, ticks>>
    /\ UNCHANGED nonAuto

\* what the remote list holds
RemoteList == 1

\* lines 499-512: http.NewRequest on the URL that NewFilter parsed, then
\* f.Transport.RoundTrip(req)
UpdaterFetch(f, ok) ==
    /\ upd[f].pc = "fetch"
    /\ upd' = [upd EXCEPT ![f] =
                 IF ok
                 THEN [@ EXCEPT !.fetches = @ + 1, !.pc = "read"]
                 ELSE [@ EXCEPT !.fetches = @ + 1, !.ended = "fetchErr",
                                !.pc = "select"]]
    /\ UNCHANGED <<onceUpdater, store, af, ticker, pr, aclock, ticks>>
    /\ UNCHANGED nonAuto

\* lines 514-527: the optional base64 decoder and ioutil.ReadAll
UpdaterRead(f, ok) ==
    /\ upd[f].pc = "read"
    /\ upd' = [upd EXCEPT ![f] =
                 IF ok
                 THEN [@ EXCEPT !.data = RemoteList, !.pc = "delete"]
                 ELSE [@ EXCEPT !.ended = "decodeErr", !.pc = "select"]]
    /\ UNCHANGED <<onceUpdater, store, af, ticker, pr, aclock, ticks>>
    /\ UNCHANGED nonAuto

\* lines 529-533: f.Store.DeleteObject(f.GFWList.Filename)
UpdaterDelete(f, ok) ==
    /\ upd[f].pc = "delete"
    /\ IF ok
       THEN /\ store' = [NoObject EXCEPT !.lmKind = store.lmKind]
            /\ upd' = [upd EXCEPT ![f].pc = "put"]
       ELSE /\ upd' = [upd EXCEPT ![f].ended = "deleteErr",
                                  ![f].pc = "select"]
            /\ UNCHANGED store
    /\ UNCHANGED <<onceUpdater, af, ticker, pr, aclock, ticks>>
    /\ UNCHANGED nonAuto

\* lines 535-543: f.Store.PutObject of the data read; nothing else follows
UpdaterPut(f, ok) ==
    /\ upd[f].pc = "put"
    /\ IF ok
       THEN /\ store' = [exists |-> TRUE, content |-> upd[f].data,
                         lm |-> aclock, lmKind |-> store.lmKind]
            /\ upd' = [upd EXCEPT ![f].ended = "ok", ![f].pc = "select"]
       ELSE /\ upd' = [upd EXCEPT ![f].ended = "putErr", ![f].pc = "select"]
            /\ UNCHANGED store
    /\ UNCHANGED <<onceUpdater, af, ticker, pr, aclock, ticks>>
    /\ UNCHANGED nonAuto

\* the request URIs tried
placeholderPath == <<"/", "p", "r", "o", "x", "y", ".", "p", "a", "c">>
URIs ==
    {<<"/">>,
     <<"/", "p", "r", "o", "x", "y", ".", "p", "a", "c">>,
     <<"/", "p", "r", "o", "x", "y", ".", "p", "a", "c", "?", "f", "l", "u", "s", "h">>,
     <<"/", "p", "r", "o", "x", "y", ".", "p", "a", "c", "?", "a", "=", "1">>,
     <<"/", "x", "?", "f", "l", "u", "s", "h">>}

\* the query of a request URI: what follows the first question mark
RawQuery(uri) ==
    LET at == {i \in 1..Len(uri) : uri[i] = "?"}
    IN IF at = {} THEN <<>>
       ELSE SubSeq(uri, (CHOOSE i \in at : \A j \in at : i <= j) + 1, Len(uri))

\* lines 547-555: pass through a request URI outside the PAC path; with flush
\* in the query go on to send on f.UpdateChan
PacRoundTrip(r, f, uri) ==
    /\ pr[r].pc = "idle"
    /\ af[f].state = "made"
    /\ pr' = [pr EXCEPT ![r] =
                IF ~HasPrefix(uri, placeholderPath)
                THEN [@ EXCEPT !.inst = f, !.uri = uri, !.pc = "returned",
                               !.ret = [ctx |-> pr[r].ctx, resp |-> NilResp,
                                        err |-> "nil"]]
                ELSE IF Contains(RawQuery(uri), <<"f", "l", "u", "s", "h">>)
                THEN [@ EXCEPT !.inst = f, !.uri = uri, !.pc = "send"]
                ELSE [@ EXCEPT !.inst = f, !.uri = uri, !.pc = "generate"]]
    /\ UNCHANGED <<onceUpdater, store, af, upd, ticker, aclock, ticks>>
    /\ UNCHANGED nonAuto

\* lines 557-574: the PAC script generated from the rules the filter's
\* AutoProxy2Pac holds, as a 200 response
PacRespond(r) ==
    /\ pr[r].pc = "generate"
    /\ LET data == <<af[pr[r].inst].pac>>
       IN pr' = [pr EXCEPT ![r].pc = "returned",
                           ![r].ret = [ctx |-> pr[r].ctx,
                                       resp |-> [status |-> 200, body |-> data,
                                                 contentLength |-> ContentLength(data)],
                                       err |-> "nil"]]
    /\ UNCHANGED <<onceUpdater, store, af, upd, ticker, aclock, ticks>>
    /\ UNCHANGED nonAuto

AutoNext ==
    \/ \E f \in Filters : NewFilter(f)
    \/ \E f \in Filters : OnceDo(f)
    \/ \E f \in Filters : TimerFire(f)
    \/ ClockAdvance
    \/ \E f \in Filters, r \in Requesters : UpdaterRecvFlush(f, r)
    \/ \E f \in Filters : UpdaterRecvTick(f)
    \/ \E f \in Filters : UpdaterCheck(f)
    \/ \E f \in Filters, ok \in BOOLEAN : UpdaterFetch(f, ok)
    \/ \E f \in Filters, ok \in BOOLEAN : UpdaterRead(f, ok)
    \/ \E f \in Filters, ok \in BOOLEAN : UpdaterDelete(f, ok)
    \/ \E f \in Filters, ok \in BOOLEAN : UpdaterPut(f, ok)
    \/ \E r \in Requesters, f \in Filters, uri \in URIs : PacRoundTrip(r, f, uri)
    \/ \E r \in Requesters : PacRespond(r)

(***************************************************************************)
(* Specifications                                                          *)
(***************************************************************************)
Init == ListenTCP /\ DialerIdle /\ DirectIdle /\ SelectIdle /\ AutoIdle

\* the direct filter serving one request
SpecDirect == Init /\ [][DirectNext]_vars

\* the dialer of any configuration
DialerInit == ListenTCP /\ DialerAny /\ DirectIdle /\ SelectIdle /\ AutoIdle

SpecDialer == DialerInit /\ [][DialerNext]_vars

\* the vps and php filters serving any one request
SelectInit == ListenTCP /\ DialerIdle /\ DirectIdle /\ SelectAny /\ AutoIdle

SpecSelect == SelectInit /\ [][SelectNext]_vars

\* the autoproxy filter: instances, their updaters and PAC requests
AutoInit == ListenTCP /\ DialerIdle /\ DirectIdle /\ SelectIdle /\ AutoAny

SpecAuto == AutoInit /\ [][AutoNext]_vars

\* one RoundTrip call of the vps filter and of the php filter and the
\* RoundTrip calls of the autoproxy filter, on requests inside and outside each
\* filter's scope; the updater is followed as far as RoundTrip meets it
RoundTripsInit ==
    /\ ListenTCP /\ DialerIdle /\ DirectIdle /\ AutoIdle
    /\ req \in [matched : BOOLEAN, host : {<<"a", ".", "c", "o", "m">>}, path : {<<"/", "a", ".", "j", "p", "g">>}]
    /\ nsrv \in {1, MaxBackends}
    /\ vps = FilterIdle
    /\ php = FilterIdle

RoundTripsNext ==
    \/ SelectNext
    \/ \E f \in Filters : NewFilter(f)
    \/ \E f \in Filters : OnceDo(f)
    \/ \E f \in Filters, r \in Requesters : UpdaterRecvFlush(f, r)
    \/ \E r \in Requesters, f \in Filters, uri \in URIs : PacRoundTrip(r, f, uri)
    \/ \E r \in Requesters : PacRespond(r)

SpecRoundTrips == RoundTripsInit /\ [][RoundTripsNext]_vars

\* Accept and Add callers with the acceptance goroutine
NextAcceptAdd ==
    \/ WorkerAccept
    \/ WorkerSend
    \/ WorkerSleep
    \/ \E a \in Acceptors : AcceptOnce(a)
    \/ \E a \in Acceptors : AcceptRecv(a)
    \/ \E p \in Adders : AddLock(p)
    \/ \E p \in Adders : AddCheck(p)
    \/ \E p \in Adders : AddSend(p)

Next ==
    \/ NextAcceptAdd
    \/ \E c \in Closers : CloseLock(c)
    \/ \E c \in Closers : CloseCheck(c)
    \/ \E c \in Closers : CloseLane(c)
    \/ \E c \in Closers : CloseLn(c)

\* the listener with every operation
Spec == Init /\ [][Next]_vars

\* the listener without Close; the Go scheduler runs every runnable goroutine,
\* and the server calls Accept in a loop
SpecAcceptAdd ==
    /\ Init
    /\ [][NextAcceptAdd]_vars
    /\ \A a \in Acceptors : WF_vars(AcceptOnce(a) \/ AcceptRecv(a))

(***************************************************************************)
(* Properties of the dialer                                                *)
(***************************************************************************)
DialEnded == dl.pc \in {"returned", "panicked"}

\* the retry attempts, delay, TTL, cache and loopback set that initialization
\* computes for the caller's Dialer
Initialized == initDo(dialer)

\* the Dial call in progress is a TCP dial of a well-formed address that the
\* cache did not answer
UncachedTCP ==
    /\ dl.network \in TCPNetworks
    /\ SplitHostPort(dl.asked).err = "nil"
    /\ ~dl.hit

\* C5: a TCP Dial of an uncached address whose host resolves first to an
\* address of the loopback/local-interface set that initialization computes
\* returns the invalid-address error, makes no connect attempt and stores
\* nothing in the DNS cache.
C5_LoopbackResolutionRejected ==
    (DialEnded /\ UncachedTCP /\ dl.lookup \in Initialized.loAddrs) =>
        /\ dl.pc = "returned"
        /\ dl.err = "InvalidAddr"
        /\ dl.conn = "nil"
        /\ dl.attempts = 0
        /\ dl.sets = 0

\* the connects of the call in progress failed fails times and then succeeded,
\* or all failed
RetryOutcome(R) ==
    IF dl.conn /= "nil"
    THEN /\ dl.err = "nil"
         /\ dl.fails < R
         /\ dl.attempts = dl.fails + 1
         /\ dl.delays = dl.fails
    ELSE /\ dl.err = "connectErr"
         /\ dl.attempts = R
         /\ dl.fails = R
         /\ dl.delays = R - 1

\* C6: with R retry attempts in effect, a Dial that reaches the connect
\* returns the connection after k+1 attempts and k delays when the connect
\* fails k < R times and then succeeds, returns the last error after R
\* attempts and R-1 delays when all fail, and never returns a nil connection
\* with a nil error.
C6_RetryBound ==
    (dl.pc = "returned" /\ dl.err /= "InvalidAddr") =>
        /\ RetryOutcome(Initialized.RetryTimes)
        /\ ~(dl.conn = "nil" /\ dl.err = "nil")

\* C7: a TCP Dial of an address that resolves (to an address outside the
\* loopback set) caches host:port until resolution time + TTL, and a Dial
\* answered by the cache resolves nothing.
C7_ResolutionCachedAndReused ==
    /\ (DialEnded /\ UncachedTCP /\ dl.lookup \in IPs \ Initialized.loAddrs) =>
          /\ dl.pc = "returned"
          /\ dl.resolutions = 1
          /\ dialer.dnsCache /= Nil
          /\ \E t \in 0..now :
                CacheGet(dialer.dnsCache, dl.asked,
                         t + Initialized.DNSCacheExpires - 1)
                = [ok |-> TRUE,
                   value |-> JoinHostPort(dl.lookup,
                                          SplitHostPort(dl.asked).port)]
    /\ (DialEnded /\ dl.hit) => dl.resolutions = 0

\* C8: in Dial a Dialer with unset fields has the defaults (2 attempts,
\* 100 ms, 1 hour, a cache of capacity 8192, a loopback set), and what
\* initialization computed is what this and every later Dial uses.
C8_DefaultsInEffect ==
    /\ dl.pc /= "idle" => dl.d = Initialized
    /\ dcount.dials > 0 => dialer.once

(***************************************************************************)
(* Properties of the direct filter                                         *)
(***************************************************************************)
\* C9: for a CONNECT request the 200 status is written only after the dial
\* succeeded and is flushed before the client connection is hijacked, no byte
\* is relayed before the hijack succeeded, a return of nil response and nil
\* error after tunneling leaves the context marked hijacked, and a response
\* writer without hijack support gets an error and no status.
C9_ConnectHijackOrdering ==
    /\ Happened("status200") => Before("dialOk", "status200")
    /\ Happened("hijackOk") =>
          /\ Before("status200", "flush")
          /\ Before("flush", "hijackOk")
    /\ Happened("relay") => Before("hijackOk", "relay")
    /\ (cf.pc = "returned" /\ cf.method = "CONNECT" /\ Happened("hijackOk")) =>
          /\ cf.resp = NilResp
          /\ cf.err = "nil"
          /\ cf.hijacked
    /\ (cf.method = "CONNECT" /\ cf.rconn = "open" /\ ~cf.hijacker
        /\ cf.pc \notin {"dial", "assert"}) =>
          /\ cf.pc = "returned"
          /\ cf.err = "notHijacker"
          /\ ~Happened("status200")

\* a CONNECT request has returned after a tunnel that relayed a chunk
C9_Witness ==
    /\ cf.pc = "returned"
    /\ cf.method = "CONNECT"
    /\ Happened("relay")
    /\ cf.hijacked

\* a CONNECT request on a response writer without hijack support has returned
C9_WitnessNoHijacker ==
    /\ cf.pc = "returned"
    /\ cf.err = "notHijacker"

\* a request whose dial or round trip to the target failed with an ordinary
\* error has returned
OrdinaryFailure == cf.pc = "returned" /\ cf.cause # <<>>

\* C11: every request of the direct filter whose dial or round trip failed
\* with an ordinary error returns a 502 response whose body is the error text
\* and whose content length is the body's length, with a nil error, whatever
\* the method, CONNECT included.
C11_OrdinaryFailureYields502 ==
    OrdinaryFailure =>
        /\ cf.resp.status = 502
        /\ cf.resp.body = cf.cause
        /\ cf.resp.contentLength = Len(cf.resp.body)
        /\ cf.err = "nil"

\* C11 as amended: a request with a method other than CONNECT and PRI whose
\* round trip failed with an ordinary error returns a 502 response whose body
\* is the error text and whose content length is the body's length, with a nil
\* error; a CONNECT request whose dial failed returns no response and the dial
\* error.
C11_OrdinaryFailureOutsideConnectYields502 ==
    OrdinaryFailure =>
        IF cf.method = "CONNECT"
        THEN /\ cf.resp = NilResp
             /\ cf.err = "dialErr"
             /\ ~cf.hijacked
        ELSE /\ cf.resp.status = 502
             /\ cf.resp.body = cf.cause
             /\ cf.resp.contentLength = Len(cf.resp.body)
             /\ cf.err = "nil"

\* a GET whose round trip failed has returned its 502 with a two-byte body
C11_Witness ==
    /\ cf.pc = "returned"
    /\ cf.method = "GET"
    /\ Len(cf.cause) = 2
    /\ cf.resp.status = 502

\* C22: on every return of the CONNECT handling after the upstream dial
\* succeeded (no hijack or flush support, Hijack() failed, or the relay ended)
\* the dialed upstream connection has been closed.
C22_UpstreamClosedOnReturn ==
    (cf.pc = "returned" /\ cf.method = "CONNECT" /\ Happened("dialOk")) =>
        cf.rconn = "closed"

\* C10: once the tunnel is established and either endpoint has closed, both
\* pumps end and RoundTrip returns: as long as that has not happened, a step
\* of the filter's own goroutines is possible (they do not wait for anything
\* the endpoints may never do).
C10_RelayEndsWhenEitherSideCloses ==
    (Happened("hijackOk") /\ (tun.client = "closed" \/ tun.upstream = "closed"))
        => \/ cf.pc = "returned" /\ tun.goPc = "done"
           \/ ENABLED RelayStep

(***************************************************************************)
(* Properties of the vps and php filters                                   *)
(***************************************************************************)
\* rule 1: the path extension is one of jpg, png, webp, bmp, gif, flv, mp4
MediaExtension(r) == Ext(r.path) \in MediaExts
\* rule 2: no extension, and the final path segment contains play or video
PlayOrVideoName(r) ==
    /\ Ext(r.path) = <<>>
    /\ \/ Contains(Base(r.path), <<"p", "l", "a", "y">>)
       \/ Contains(Base(r.path), <<"v", "i", "d", "e", "o">>)

\* the decision table with rule 3 applying whenever rules 1 and 2 do not
TableAnyExt(r, n) ==
    IF \/ MediaExtension(r)
       \/ PlayOrVideoName(r)
       \/ StaticPatterns(r)
    THEN 0..(n - 1)
    ELSE {0}

\* the decision table with rule 3 applying only to a request that has an
\* extension
TableWithExt(r, n) ==
    IF \/ MediaExtension(r)
       \/ PlayOrVideoName(r)
       \/ Ext(r.path) # <<>> /\ StaticPatterns(r)
    THEN 0..(n - 1)
    ELSE {0}

\* both filters choose from the set T(req, nsrv), and the index chosen is in it
ChoosesFrom(T(_, _)) ==
    /\ vps.selected => vps.choices = T(req, nsrv) /\ vps.i \in T(req, nsrv)
    /\ php.selected => php.choices = T(req, nsrv) /\ php.i \in T(req, nsrv)
    /\ (vps.selected /\ php.selected) => vps.choices = php.choices

\* C12: for a site-matched request and N >= 1 backends the indices that can
\* be chosen are all of [0,N) when the extension is a media extension, or the
\* extension is empty and the final segment contains play or video, or
\* neither holds and the host or path matches a static/media/cache pattern,
\* whatever the extension, an empty one included; otherwise exactly {0}; vps
\* and php choose from the same set.
C12_SelectionMatchesTable == ChoosesFrom(TableAnyExt)

\* C12 as amended: the static/media/cache patterns are consulted only for a
\* request with a non-empty extension outside the media extensions; a request
\* with an empty extension whose final segment contains neither play nor video
\* gets index 0 whatever its host and path.
C12_SelectionMatchesTableWithExt == ChoosesFrom(TableWithExt)

\* both filters have chosen for /static/page with more than one backend
C12_Witness ==
    /\ vps.selected
    /\ php.selected
    /\ nsrv > 1
    /\ req.path = <<"/", "s", "t", "a", "t", "i", "c", "/", "p", "a", "g", "e">>
    /\ vps.choices = {0}

(***************************************************************************)
(* Properties of the autoproxy filter                                      *)
(***************************************************************************)
\* the updater of instance f has decided what to do with its last trigger
Decided(f) == upd[f].decision # "none"

\* C13: a timer tick that finds a stored copy whose last-modified time plus
\* the refresh interval is before now starts exactly one fetch/store cycle; a
\* tick that finds it within the interval, or finds the metadata absent or
\* unparsable, starts no fetch; a manual flush always starts a fetch, without
\* consulting the stored metadata.
C13_UpdaterTriggerDecision ==
    \A f \in Filters : Decided(f) =>
        /\ upd[f].trigger = "tick" =>
              /\ upd[f].consulted
              /\ upd[f].decision = "cycle" <=>
                    /\ upd[f].headKind = "ok"
                    /\ upd[f].lmSeen + Duration < upd[f].nowSeen
        /\ upd[f].trigger = "flush" =>
              /\ upd[f].decision = "cycle"
              /\ ~upd[f].consulted
        /\ upd[f].decision = "skip" => upd[f].fetches = 0
        /\ upd[f].decision = "cycle" =>
              upd[f].fetches = IF upd[f].pc = "fetch" THEN 0 ELSE 1

\* a tick found the stored copy stale and its cycle has fetched the remote list
C13_Witness ==
    \E f \in Filters :
        /\ upd[f].trigger = "tick"
        /\ upd[f].decision = "cycle"
        /\ upd[f].fetches = 1

\* C14: after a refresh cycle that ended in a fetch, decode, delete or put
\* error the persisted copy is what it was before the cycle, and the updater
\* waits for the next trigger.
C14_FailedCycleLeavesStoreUnchanged ==
    \A f \in Filters :
        upd[f].ended \in {"fetchErr", "decodeErr", "deleteErr", "putErr"} =>
            /\ store = upd[f].before
            /\ upd[f].pc = "select"

\* no updater is inside a refresh cycle
OutsideRefresh == \A f \in Filters : upd[f].pc \in {"none", "select", "check"}

\* C15: outside a refresh the rules every instance generates its PAC script
\* from are the most recently persisted ones, and the script of a PAC response
\* is made from them.
C15_GeneratorReflectsPersistedRuleset ==
    (OutsideRefresh /\ store.exists) =>
        \A f \in Filters : af[f].state = "made" => af[f].pac = store.content

\* the updater of instance f is at work on a trigger: consulting the store or
\* inside a refresh cycle
Busy(f) == upd[f].pc \in {"check", "fetch", "read", "delete", "put"}

\* C16: a request to the PAC path, with or without the refresh parameter,
\* never waits for the updater: it is never held at the flush signal while the
\* updater it signals is at work on a refresh.
C16_PacRequestNeverWaitsForUpdater ==
    \A r \in Requesters : ~(pr[r].pc = "send" /\ Busy(pr[r].inst))

\* C18: every instance whose constructor's goroutine has gone into
\* onceUpdater.Do has its own running updater, so that a flush sent through it
\* has a receiver.
C18_OneUpdaterPerInstance ==
    \A f \in Filters :
        af[f].starter \in {"running", "blocked"} => upd[f].pc # "none"

(***************************************************************************)
(* Properties of pass-through                                              *)
(***************************************************************************)
\* a frame of the vps or php filter that returned for a request its site list
\* does not match
PassedThrough(fr) ==
    /\ fr.ret = [ctx |-> Ctx0, resp |-> "nil", err |-> "nil"]
    /\ fr.ctx = Ctx0
    /\ ~fr.selected
    /\ ~fr.fetched

\* C19: a request outside a filter's scope (host not matched by the site list
\* for vps and php, request URI not starting with the PAC path for autoproxy)
\* returns the same context with nil response and nil error, with no backend
\* selected, no upstream fetch, no flush signal and the context unchanged.
C19_PassThroughLeavesEverythingUnchanged ==
    /\ (vps.pc = "returned" /\ ~req.matched) => PassedThrough(vps)
    /\ (php.pc = "returned" /\ ~req.matched) => PassedThrough(php)
    /\ \A r \in Requesters :
          (pr[r].pc = "returned" /\ ~HasPrefix(pr[r].uri, placeholderPath)) =>
              /\ pr[r].ret = [ctx |-> Ctx0, resp |-> NilResp, err |-> "nil"]
              /\ pr[r].ctx = Ctx0
              /\ ~pr[r].flushed

\* all three filters have passed a request through, the autoproxy filter one
\* that asks for a flush outside the PAC path
C19_Witness ==
    /\ ~req.matched
    /\ vps.pc = "returned"
    /\ php.pc = "returned"
    /\ \E r \in Requesters : pr[r].pc = "returned" /\ pr[r].uri = <<"/", "x", "?", "f", "l", "u", "s", "h">>

(***************************************************************************)
(* Properties of the listener                                              *)
(***************************************************************************)
Sources == {0} \cup Adders
AllConns ==
    {Conn(0, i) : i \in 1..MaxResults}
    \cup {Conn(p, j) : p \in Adders, j \in 1..MaxAdds}

\* the connections still queued, oldest first
LaneConns ==
    LET q == SelectSeq(lane, LAMBDA r : r.err = "nil")
    IN [i \in 1..Len(q) |-> q[i].conn]

\* the numbers of the connections of path s in the sequence of connections q
SeqsOf(s, q) ==
    LET f == SelectSeq(q, LAMBDA c : c.src = s)
    IN [i \in 1..Len(f) |-> f[i].seq]

\* how many connections path s has placed into the queue
Submitted(s) ==
    IF s = 0
    THEN env.conns - (IF worker.pc = "send" /\ worker.r.err = "nil" THEN 1 ELSE 0)
    ELSE hist.addOk[s]

InLane(c) == \E i \in 1..Len(lane) : lane[i].conn = c
Delivered(c) == \E i \in 1..Len(hist.delivered) : hist.delivered[i] = c

\* what Accept has returned followed by what is queued holds every
\* connection of every path exactly once and in the order of submission
ExactlyOnceInOrder ==
    \A s \in Sources :
        SeqsOf(s, hist.delivered \o LaneConns) = [i \in 1..Submitted(s) |-> i]

C2_CloseIdempotentAddRefused ==
    /\ panicked \notin {"add", "close"}
    /\ hist.laneCloses <= 1
    /\ hist.lnCloses <= 1
    /\ hist.closeDone =>
          /\ hist.laneCloses = 1
          /\ hist.lnCloses = 1
          /\ laneClosed
          /\ ~lnOpen
    /\ \A c \in Closers :
          (closePc[c] = "done" /\ c /= hist.closer) => hist.closeRet[c] = "nil"
    /\ \A p \in Adders :
          hist.addAfterClose[p] =>
             /\ addPc[p] /= "send"
             /\ hist.addRet[p] \in {"none", "closed"}
             /\ addPc[p] = "idle" => hist.addRet[p] = "closed"

\* every Close call has returned and an Add begun after the first Close was
\* refused
C2_Witness ==
    /\ \A c \in Closers : closePc[c] = "done"
    /\ \E p \in Adders :
          /\ hist.addAfterClose[p]
          /\ addPc[p] = "idle"
          /\ hist.addRet[p] = "closed"

\* C3: a non-temporary error of the underlying accept is published into the
\* queue exactly once: when the worker is through with it, the queue has
\* received it once (and never more than once).
C3_PermErrorPublishedOnce ==
    /\ hist.permPublished <= 1
    /\ (worker.r.err = "perm" /\ (worker.pc = "done" \/ panicked = "worker"))
          => hist.permPublished = 1

\* C4: at most one acceptance worker is ever started: none before the first
\* Accept call, exactly one after any number of Accept calls.
C4_ExactlyOneWorker ==
    /\ hist.workersStarted = (IF hist.acceptCalled THEN 1 ELSE 0)
    /\ worker.pc = "none" <=> ~hist.acceptCalled

\* every Accept caller is inside Accept at the same time
C4_Witness ==
    /\ \A a \in Acceptors : accPc[a] = "recv"
    /\ hist.workersStarted = 1

\* C17: no send happens on the queue after Close has closed it, neither by Add
\* nor by the acceptance worker whose pending accept Close has unblocked with
\* an error: no goroutine panics on such a send.
C17_NoSendOnClosedQueue == panicked \notin {"worker", "add"}

\* C20: every return of Accept carries a connection or an error; an Accept
\* that receives from the closed and drained queue returns an error, never a
\* nil connection with a nil error.
C20_AcceptNeverReturnsNilNil == ~hist.nilNil

\* the goroutine holding l.mu can go on by itself, with no Accept receiving
HolderCanProceed ==
    /\ \A p \in Adders :
          mu = HeldBy("add", p) => ENABLED (AddCheck(p) \/ AddSend(p))
    /\ \A c \in Closers :
          mu = HeldBy("close", c) =>
              ENABLED (CloseCheck(c) \/ CloseLane(c) \/ CloseLn(c))

\* C21: Close always returns, and so does a further Add, whatever the fill
\* level of the queue: an Add in progress on a full queue does not keep the
\* mutex while it waits for room, so whoever holds the mutex that Close and Add
\* wait for can always go on while no Accept call is there to take from the
\* queue.
C21_CloseNeverWaitsForFullQueue ==
    (Running /\ \A a \in Acceptors : accPc[a] = "idle") => HolderCanProceed
====
